---- MODULE Spec2Model ----
(***************************************************************************)
(* Session orchestration layer of the browser automation agent server:     *)
(* ConnectionManager, run_automation and the websocket_endpoint message    *)
(* loop of browser_automation_agent/server.py, together with the log       *)
(* relays of BrowserAutomationAgent (agent.py).                            *)
(*                                                                         *)
(* The asyncio event loop is modelled by `cur`: the task that is running   *)
(* and has not yet suspended.  Every other task only runs when `cur` is    *)
(* NoTask.  Tasks created with asyncio.create_task for the overridden      *)
(* _log_message are kept in the FIFO `logq`; the loop runs them before the *)
(* task that created them is resumed from a suspension.                    *)
(***************************************************************************)
EXTENDS Naturals, Sequences, FiniteSets, TLC

NumClients == 1
MaxMsgs == 2
MaxSteps == 1
MaxStalls == 1

Clients == 1..NumClients

VARIABLES
    active_connections, \* ConnectionManager.active_connections (its key set)
    active_clients,     \* active_clients (its key set)
    active_automations, \* client id -> index of the stored task, 0 = no key
    transport,          \* client id -> state of the websocket transport
    hpc,                \* client id -> position of websocket_endpoint
    jobs,               \* client id -> the run_automation tasks created for it
    logq,               \* client id -> pending create_task(send_message) tasks
    sent,               \* client id -> messages written by send_text for its
                        \* tasks since its newest task was created
    cur,                \* the task holding the event loop
    early,              \* tasks that were ready before the pending logq tasks
    nrecv,              \* number of inbound messages read so far
    stalls,             \* number of sends that suspended in send_text so far
    last,               \* the last operation and its last send_message call
    bcast               \* a ConnectionManager.broadcast call: the connections in
                        \* the dict's iteration order, and how the call ended

vars == <<active_connections, active_clients, active_automations, transport,
          hpc, jobs, logq, sent, cur, early, nrecv, stalls, last, bcast>>

NoTask == <<0, 0>>

\* The shapes of an inbound text frame, by the path they take in the loop.
Messages == {"submit_ok", "submit_empty", "submit_ctorfail", "submit_invalid",
             "submit_badshape", "stop", "other", "badjson", "notobject"}

SubmitMessages == {"submit_ok", "submit_empty", "submit_ctorfail", "submit_invalid",
                   "submit_badshape"}

\* AutomationRequest(**request_data) for a submit that validates: a task text,
\* an empty task text (`payload.get("prompt", "")`), or provider openai with
\* api_key = os.environ.get("OPENAI_API_KEY") = None
RequestOf(m) ==
    CASE m = "submit_ok" -> "ok"
      [] m = "submit_empty" -> "empty"
      [] m = "submit_ctorfail" -> "ctorfail"

Ev(j, ev, tag, n) == [job |-> j, ev |-> ev, tag |-> tag, n |-> n]

NewJob(req) == [pc |-> "unstarted", cancelReq |-> FALSE, steps |-> 0,
                emitted |-> 0, req |-> req, outcome |-> "none"]

\* a finished task: only its outcome is kept
Done(outcome) == [pc |-> "done", cancelReq |-> FALSE, steps |-> 0,
                  emitted |-> 0, req |-> "none", outcome |-> outcome]

NoSend == [c |-> 0, reg |-> FALSE, out |-> "none", ev |-> "none", tag |-> "none"]

\* position of the message loop; msg is the submit held across the sleep
At(where) == [at |-> where, msg |-> "none"]

Op(name, c, snd) == [op |-> name, c |-> c, send |-> snd]

\* Task.done()
done(c, j) == jobs[c][j].pc = "done"

\* `client_id in active_automations and not active_automations[client_id].done()`
HasRunning(c) == active_automations[c] # 0 /\ ~done(c, active_automations[c])

\* WebSocket.send_text on a transport
send_text(c) == IF transport[c] = "open" THEN "written" ELSE "raised"

\* send_message without the membership test: the lookup of a missing key raises
send_message_unchecked(conns, c) == IF c \in conns THEN send_text(c) ELSE "raised"

\* send_message that keeps writing to the websocket of a removed client
send_message_stale(conns, c) == IF c \in conns THEN send_text(c) ELSE "written"

\* ConnectionManager.send_message: what one call does on connection set conns
send_message(conns, c) == IF c \in conns THEN send_text(c) ELSE "noop"

\* the record of one send_message(c, ev, {tag}) call
SendRec(c, ev, tag) == [c |-> c, reg |-> c \in active_connections,
                        out |-> send_message(active_connections, c),
                        ev |-> ev, tag |-> tag]

\* a send that writes the event to every registered connection that is open
Written_to_all(c, e) ==
    IF send_message(active_connections, c) = "written"
    THEN [d \in DOMAIN sent |->
            IF d \in active_connections /\ transport[d] = "open"
            THEN Append(sent[d], e) ELSE sent[d]]
    ELSE sent

\* the transport of c after one send_message(c, e) call
Written(c, e) ==
    IF send_message(active_connections, c) = "written"
    THEN [sent EXCEPT ![c] = Append(@, e)]
    ELSE sent

\* no broadcast call has been made
NoBroadcast == [order |-> <<>>, out |-> "idle"]

Init ==
    /\ active_connections = {}
    /\ active_clients = {}
    /\ active_automations = [c \in Clients |-> 0]
    /\ transport = [c \in Clients |-> "new"]
    /\ hpc = [c \in Clients |-> At("init")]
    /\ jobs = [c \in Clients |-> <<>>]
    /\ logq = [c \in Clients |-> <<>>]
    /\ sent = [c \in Clients |-> <<>>]
    /\ cur = NoTask
    /\ early = {}
    /\ nrecv = 0
    /\ stalls = 0
    /\ last = Op("init", 0, NoSend)
    /\ bcast = NoBroadcast

\* ---------------------------------------------------------------------
\* The event loop.  Handles run in the order they became ready: the tasks made
\* by new_log_message run before every task that becomes ready after them (the
\* task that made them included), and after the tasks that were ready already,
\* which take one step each at most before them.

Handler(c) == <<c, 0>>

\* the tasks that exist and have not ended (the peer included, as NoTask)
Alive(h, js) ==
    {NoTask} \cup {Handler(c) : c \in {d \in DOMAIN h : h[d].at # "gone"}}
             \cup {t \in (DOMAIN h) \X (1..MaxMsgs) :
                      t[2] <= Len(js[t[1]]) /\ js[t[1]][t[2]].pc # "done"}

LogsIdle == \A c \in DOMAIN logq : logq[c] = <<>>

MayRun(t) ==
    \/ cur = t /\ t # NoTask
    \/ cur = NoTask /\ (LogsIdle \/ t \in early)

Sched(t) ==
    early' = IF \A c \in DOMAIN logq : logq'[c] = <<>> THEN {}
             ELSE IF LogsIdle THEN (Alive(hpc, jobs) \cap Alive(hpc', jobs')) \ {t}
             ELSE (early \cap Alive(hpc', jobs')) \ {t}

\* ---------------------------------------------------------------------
\* websocket_endpoint: one task per connection

\* websocket_endpoint up to the message loop: manager.connect and
\* active_clients[client_id] = ClientInfo(...)
Connect(c) ==
    /\ MayRun(Handler(c))
    /\ hpc[c].at = "init"
    /\ active_connections' = active_connections \cup {c}
    /\ active_clients' = active_clients \cup {c}
    /\ transport' = [transport EXCEPT ![c] = "open"]
    /\ hpc' = [hpc EXCEPT ![c] = At("recv")]
    /\ last' = Op("connect", c, NoSend)
    /\ UNCHANGED <<active_automations, jobs, logq, sent, cur, nrecv, stalls>>
    /\ Sched(Handler(c))
    /\ UNCHANGED bcast

\* the peer closes the websocket; the loop learns of it at its next receive
ClientClose(c) ==
    /\ MayRun(NoTask)
    /\ transport[c] = "open"
    /\ transport' = [transport EXCEPT ![c] = "closed"]
    /\ last' = Op("close", c, NoSend)
    /\ UNCHANGED <<active_connections, active_clients, active_automations,
                   hpc, jobs, logq, sent, cur, nrecv, stalls>>
    /\ Sched(NoTask)
    /\ UNCHANGED bcast

\* Task.cancel() on the task stored for c
cancel(js, c) == [js EXCEPT ![c][active_automations[c]].cancelReq = TRUE]

\* `if client_id in active_automations and not ...done(): ....cancel()`
cancel_if_running(js, c) == IF HasRunning(c) THEN cancel(js, c) ELSE js

\* the two handlers that end the message loop (except WebSocketDisconnect,
\* except Exception): manager.disconnect, cancel, del active_clients
Cleanup(c) ==
    /\ active_connections' = active_connections \ {c}
    /\ jobs' = cancel_if_running(jobs, c)
    /\ active_clients' = active_clients \ {c}
    /\ hpc' = [hpc EXCEPT ![c] = At("gone")]

\* an error report after which the message loop is left
ReportError_fatal(c, name, tag) ==
    /\ last' = Op(name, c, SendRec(c, "automation:error", tag))
    /\ Cleanup(c)
    /\ UNCHANGED <<active_automations, sent>>

\* an error report of the message loop: send_message(client_id,
\* "automation:error", ...) in an except clause.  A send that raises leaves the
\* inner try (a second report in `except Exception` raises again) and ends the
\* loop through the outer handlers.
ReportError(c, name, tag) ==
    /\ last' = Op(name, c, SendRec(c, "automation:error", tag))
    /\ IF send_message(active_connections, c) = "raised"
       THEN /\ Cleanup(c)
            /\ UNCHANGED <<active_automations, sent>>
       ELSE /\ hpc' = [hpc EXCEPT ![c] = At("recv")]
            /\ UNCHANGED <<active_connections, active_clients,
                           active_automations, jobs, sent>>

\* a submit branch that starts the task before the request is validated
SubmitBody_unvalidated(c, m) ==
    IF m = "submit_badshape" THEN ReportError(c, "submit", "server")
    ELSE /\ jobs' = [jobs EXCEPT ![c] = Append(@, NewJob("ok"))]
         /\ active_automations' = [active_automations EXCEPT ![c] = Len(jobs[c]) + 1]
         /\ hpc' = [hpc EXCEPT ![c] = At("recv")]
         /\ last' = Op("submit", c, IF m = "submit_invalid"
                                    THEN SendRec(c, "automation:error", "invalid")
                                    ELSE NoSend)
         /\ sent' = [sent EXCEPT ![c] = <<>>]
         /\ UNCHANGED <<active_connections, active_clients>>

\* prompt:submit from the request parsing on (the inner try of the branch)
SubmitBody(c, m) ==
    IF m = "submit_badshape" THEN ReportError(c, "submit", "server")
    ELSE IF m = "submit_invalid" THEN ReportError(c, "submit", "invalid")
    ELSE /\ jobs' = [jobs EXCEPT ![c] =
                        Append(@, NewJob(RequestOf(m)))]
         /\ active_automations' = [active_automations EXCEPT ![c] = Len(jobs[c]) + 1]
         /\ hpc' = [hpc EXCEPT ![c] = At("recv")]
         /\ last' = Op("submit", c, NoSend)
         /\ sent' = [sent EXCEPT ![c] = <<>>]
         /\ UNCHANGED <<active_connections, active_clients>>

\* prompt:submit while a task of the client is not done: cancel it and sleep
SubmitCancel(c, m) ==
    /\ jobs' = cancel(jobs, c)
    /\ hpc' = [hpc EXCEPT ![c] = [at |-> "sleep", msg |-> m]]
    /\ last' = Op("supersede", c, NoSend)
    /\ UNCHANGED <<active_connections, active_clients, active_automations, sent>>

\* a stop branch that acknowledges every stop with a complete event
automation_stop_ack(c) ==
    /\ jobs' = cancel_if_running(jobs, c)
    /\ last' = Op("stop", c, SendRec(c, "automation:complete", "stopped"))
    /\ sent' = Written(c, Ev(0, "automation:complete", "stopped", 0))
    /\ UNCHANGED <<active_connections, active_clients, active_automations, hpc>>

\* the automation:stop branch of the message loop
automation_stop(c) ==
    /\ jobs' = cancel_if_running(jobs, c)
    /\ last' = Op("stop", c, NoSend)
    /\ UNCHANGED <<active_connections, active_clients, active_automations, hpc, sent>>

\* a message loop that treats every event name other than prompt:submit as a
\* request to stop
receive_text_else_stop(c, m, limit) ==
    /\ MayRun(Handler(c))
    /\ hpc[c].at = "recv"
    /\ transport[c] = "open"
    /\ nrecv < limit
    /\ nrecv' = nrecv + 1
    /\ stalls' = stalls
    /\ CASE m = "badjson" -> ReportError(c, "badjson", "badjson")
         [] m = "notobject" -> ReportError(c, "notobject", "server")
         [] m = "stop" -> automation_stop(c)
         [] m = "other" ->
               /\ jobs' = cancel_if_running(jobs, c)
               /\ last' = Op("other", c, NoSend)
               /\ UNCHANGED <<active_connections, active_clients,
                              active_automations, hpc, sent>>
         [] m \in SubmitMessages ->
               IF HasRunning(c) THEN SubmitCancel(c, m) ELSE SubmitBody(c, m)
    /\ UNCHANGED <<transport, logq, cur>>
    /\ Sched(Handler(c))
    /\ UNCHANGED bcast

\* one iteration of the message loop on an inbound text frame m, one of at
\* most `limit` frames
receive_text(c, m, limit) ==
    /\ MayRun(Handler(c))
    /\ hpc[c].at = "recv"
    /\ transport[c] = "open"
    /\ nrecv < limit
    /\ nrecv' = nrecv + 1
    /\ stalls' = stalls
    /\ CASE m = "badjson" -> ReportError(c, "badjson", "badjson")
         [] m = "notobject" -> ReportError(c, "notobject", "server")
         [] m = "stop" -> automation_stop(c)
         [] m = "other" ->
               /\ last' = Op("other", c, NoSend)
               /\ UNCHANGED <<active_connections, active_clients,
                              active_automations, hpc, jobs, sent>>
         [] m \in SubmitMessages ->
               IF HasRunning(c) THEN SubmitCancel(c, m) ELSE SubmitBody(c, m)
    /\ UNCHANGED <<transport, logq, cur>>
    /\ Sched(Handler(c))
    /\ UNCHANGED bcast

\* an iteration of the message loop of a run of at most MaxMsgs frames
Receive(c, m) == receive_text(c, m, MaxMsgs)

\* a submit branch that awaits the cancelled task instead of sleeping
SleepDone_joined(c) ==
    /\ MayRun(Handler(c))
    /\ hpc[c].at = "sleep"
    /\ \A j \in 1..Len(jobs[c]) : done(c, j)
    /\ SubmitBody(c, hpc[c].msg)
    /\ UNCHANGED <<transport, logq, cur, nrecv, stalls>>
    /\ Sched(Handler(c))
    /\ UNCHANGED bcast

\* asyncio.sleep(0.5) returns.  The cancelled task was made ready before the
\* timer was, so its CancelledError has been thrown by then.
SleepDone(c) ==
    /\ MayRun(Handler(c))
    /\ hpc[c].at = "sleep"
    /\ active_automations[c] # 0 => ~jobs[c][active_automations[c]].cancelReq
    /\ SubmitBody(c, hpc[c].msg)
    /\ UNCHANGED <<transport, logq, cur, nrecv, stalls>>
    /\ Sched(Handler(c))
    /\ UNCHANGED bcast

\* receive_text raises WebSocketDisconnect
Disconnect(c) ==
    /\ MayRun(Handler(c))
    /\ hpc[c].at = "recv"
    /\ transport[c] = "closed"
    /\ Cleanup(c)
    /\ last' = Op("disconnect", c, NoSend)
    /\ UNCHANGED <<active_automations, transport, logq, sent, cur, nrecv, stalls>>
    /\ Sched(Handler(c))
    /\ UNCHANGED bcast

\* ---------------------------------------------------------------------
\* run_automation: one asyncio task per accepted submit

EnginePcs == {"engine", "s_step", "s_done"}

\* the _log_message calls of BrowserAutomationAgent.run before the engine runs
RunLogs == <<"a_task", "a_provider", "a_llm", "a_create", "a_running">>

\* the _log_message calls of the `except Exception` clause of agent.run
RunErrorLogs == <<"a_error", "a_trace">>

\* new_log_message: one create_task(send_message(...)) per tag, in call order
new_log_message(j, jr, tags) ==
    [i \in 1..Len(tags) |-> Ev(j, "automation:log", tags[i], jr.emitted + i)]

\* the `finally` clause of run_automation, ending the task in state outcome
Finally(c, j, jr, outcome) ==
    /\ jobs' = [jobs EXCEPT ![c][j] = Done(outcome)]
    /\ active_automations' = [active_automations EXCEPT ![c] = 0]
    /\ cur' = NoTask

\* The task calls _log_message for `tags`, then awaits
\* manager.send_message(client_id, ev, {tag}).  A written message may leave the
\* task suspended in send_text; a send that raises is handled by
\* `except Exception`, whose own first send raises again, so the task ends in
\* `finally` (after the _log_message calls `onraise` when agent.run sees it).
Step(c, j, jr, tags, ev, tag, pcAfter, onraise) ==
    LET n == jr.emitted + Len(tags) + 1
        jr1 == [jr EXCEPT !.emitted = n]
        lq == logq[c] \o new_log_message(j, jr, tags)
        out == send_message(active_connections, c)
    IN  /\ last' = Op("job", c, SendRec(c, ev, tag))
        /\ IF out = "raised"
           THEN /\ Finally(c, j, jr1, "Failed")
                /\ logq' = [logq EXCEPT ![c] = lq \o new_log_message(j, jr1, onraise)]
                /\ UNCHANGED <<sent, stalls>>
           ELSE /\ sent' = Written(c, Ev(j, ev, tag, n))
                /\ jobs' = [jobs EXCEPT ![c][j] = [jr1 EXCEPT !.pc = pcAfter]]
                /\ logq' = [logq EXCEPT ![c] = lq]
                /\ \/ cur' = <<c, j>> /\ stalls' = stalls
                   \/ /\ out = "written"
                      /\ stalls < MaxStalls
                      /\ cur' = NoTask
                      /\ stalls' = stalls + 1
                /\ UNCHANGED active_automations
        /\ UNCHANGED <<active_connections, active_clients, transport, hpc, nrecv>>

Runnable(c, j, pcs) ==
    /\ j \in 1..Len(jobs[c])
    /\ jobs[c][j].pc \in pcs
    /\ ~jobs[c][j].cancelReq

\* first step of the task: "Starting automation with task: ..."
run_start(c, j) ==
    /\ MayRun(<<c, j>>)
    /\ Runnable(c, j, {"unstarted"})
    /\ Step(c, j, jobs[c][j], <<>>, "automation:log", "start", "s_start", <<>>)
    /\ Sched(<<c, j>>)
    /\ UNCHANGED bcast

\* "Configuration: ..."
run_config(c, j) ==
    /\ MayRun(<<c, j>>)
    /\ Runnable(c, j, {"s_start"})
    /\ Step(c, j, jobs[c][j], <<>>, "automation:log", "config", "s_config", <<>>)
    /\ Sched(<<c, j>>)
    /\ UNCHANGED bcast

\* the `except Exception` clause: its first send, "Error: ..."
except_Exception(c, j, jr, tags) ==
    Step(c, j, jr, tags, "automation:log", "errlog", "e_log", <<>>)

\* BrowserAutomationAgent(...) raises (ValueError of _validate_config), or the
\* callbacks are registered and agent.run() starts and reaches the engine
run_agent(c, j) ==
    /\ MayRun(<<c, j>>)
    /\ Runnable(c, j, {"s_config"})
    /\ IF jobs[c][j].req = "ctorfail"
       THEN except_Exception(c, j, jobs[c][j], <<>>)
       ELSE /\ jobs' = [jobs EXCEPT ![c][j] =
                           [@ EXCEPT !.pc = "engine", !.emitted = @ + Len(RunLogs)]]
            /\ logq' = [logq EXCEPT ![c] = @ \o new_log_message(j, jobs[c][j], RunLogs)]
            /\ cur' = NoTask
            /\ last' = Op("job", c, NoSend)
            /\ UNCHANGED <<active_connections, active_clients, active_automations,
                           transport, hpc, sent, nrecv, stalls>>
    /\ Sched(<<c, j>>)
    /\ UNCHANGED bcast

\* a step callback that logs the step and does not call new_step_callback
default_new_step_callback_norelay(c, j, limit) ==
    /\ MayRun(<<c, j>>)
    /\ Runnable(c, j, {"engine", "s_step"})
    /\ cur = NoTask
    /\ jobs[c][j].steps < limit
    /\ jobs' = [jobs EXCEPT ![c][j] =
                   [@ EXCEPT !.pc = "s_step", !.steps = @ + 1, !.emitted = @ + 1]]
    /\ logq' = [logq EXCEPT ![c] = @ \o new_log_message(j, jobs[c][j], <<"a_step">>)]
    /\ cur' = <<c, j>>
    /\ last' = Op("job", c, NoSend)
    /\ UNCHANGED <<active_connections, active_clients, active_automations,
                   transport, hpc, sent, nrecv, stalls>>
    /\ Sched(<<c, j>>)
    /\ UNCHANGED bcast

\* the engine calls _default_new_step_callback: _log_message(step), then the
\* screenshot of a browser state that has a page, or new_step_callback at once
default_new_step_callback(c, j, limit) ==
    /\ MayRun(<<c, j>>)
    /\ Runnable(c, j, {"engine", "s_step"})
    /\ cur = NoTask
    /\ jobs[c][j].steps < limit
    /\ \/ Step(c, j, [jobs[c][j] EXCEPT !.steps = @ + 1], <<"a_step">>,
               "automation:log", "step", "s_step", RunErrorLogs)
       \/ /\ jobs' = [jobs EXCEPT ![c][j] =
                         [@ EXCEPT !.pc = "shot", !.steps = @ + 1, !.emitted = @ + 1]]
          /\ logq' = [logq EXCEPT ![c] = @ \o new_log_message(j, jobs[c][j], <<"a_step">>)]
          /\ cur' = NoTask
          /\ last' = Op("job", c, NoSend)
          /\ UNCHANGED <<active_connections, active_clients, active_automations,
                         transport, hpc, sent, nrecv, stalls>>
    /\ Sched(<<c, j>>)
    /\ UNCHANGED bcast

\* a step of an engine run of at most MaxSteps steps
engine_step(c, j) == default_new_step_callback(c, j, MaxSteps)

\* page.screenshot() returned or raised ("Screenshot error: ..."), then
\* new_step_callback
engine_shot(c, j) ==
    /\ MayRun(<<c, j>>)
    /\ Runnable(c, j, {"shot"})
    /\ \E tags \in {<<>>, <<"a_shoterr">>} :
          Step(c, j, jobs[c][j], tags, "automation:log", "step", "s_step", RunErrorLogs)
    /\ Sched(<<c, j>>)
    /\ UNCHANGED bcast

\* the engine calls _default_done_callback: _log_message, then done_callback
engine_done(c, j) ==
    /\ MayRun(<<c, j>>)
    /\ Runnable(c, j, {"engine", "s_step"})
    /\ cur = NoTask
    /\ Step(c, j, jobs[c][j], <<"a_done">>, "automation:log", "donecb", "s_done",
            RunErrorLogs)
    /\ Sched(<<c, j>>)
    /\ UNCHANGED bcast

\* the engine suspends on its own I/O
engine_yield(c, j) ==
    /\ MayRun(<<c, j>>)
    /\ Runnable(c, j, EnginePcs)
    /\ cur = <<c, j>>
    /\ cur' = NoTask
    /\ last' = Op("job", c, NoSend)
    /\ UNCHANGED <<active_connections, active_clients, active_automations,
                   transport, hpc, jobs, logq, sent, nrecv, stalls>>
    /\ Sched(<<c, j>>)
    /\ UNCHANGED bcast

\* agent.run() returns: the final result and the visited URLs are logged when
\* present, then run_automation sends the success complete
engine_return(c, j) ==
    /\ MayRun(<<c, j>>)
    /\ Runnable(c, j, EnginePcs)
    /\ \E tags \in {<<>>, <<"a_result", "a_urls">>} :
          Step(c, j, jobs[c][j], tags, "automation:complete", "ok", "s_complete", <<>>)
    /\ Sched(<<c, j>>)
    /\ UNCHANGED bcast

\* the engine raises: agent.run logs the error and the traceback and re-raises
engine_fail(c, j) ==
    /\ MayRun(<<c, j>>)
    /\ Runnable(c, j, EnginePcs)
    /\ except_Exception(c, j, jobs[c][j], RunErrorLogs)
    /\ Sched(<<c, j>>)
    /\ UNCHANGED bcast

\* a failure handler that reports the failure as one more log event
except_error_as_log(c, j) ==
    /\ MayRun(<<c, j>>)
    /\ Runnable(c, j, {"e_log"})
    /\ Step(c, j, jobs[c][j], <<>>, "automation:log", "error", "e_error", <<>>)
    /\ Sched(<<c, j>>)
    /\ UNCHANGED bcast

\* `except Exception`: automation:error
except_error(c, j) ==
    /\ MayRun(<<c, j>>)
    /\ Runnable(c, j, {"e_log"})
    /\ Step(c, j, jobs[c][j], <<>>, "automation:error", "error", "e_error", <<>>)
    /\ Sched(<<c, j>>)
    /\ UNCHANGED bcast

\* `except Exception`: automation:complete {success: False}
except_complete(c, j) ==
    /\ MayRun(<<c, j>>)
    /\ Runnable(c, j, {"e_error"})
    /\ Step(c, j, jobs[c][j], <<>>, "automation:complete", "failed", "e_complete", <<>>)
    /\ Sched(<<c, j>>)
    /\ UNCHANGED bcast

\* `except asyncio.CancelledError`: "Automation stopped by user"
except_CancelledError(c, j, jr) ==
    Step(c, j, jr, <<>>, "automation:log", "stopped", "c_log", <<>>)

\* a cancellation handler that reports the run as successful
cancelled_complete_success(c, j) ==
    /\ MayRun(<<c, j>>)
    /\ Runnable(c, j, {"c_log"})
    /\ Step(c, j, jobs[c][j], <<>>, "automation:complete", "ok", "c_complete", <<>>)
    /\ Sched(<<c, j>>)
    /\ UNCHANGED bcast

\* `except asyncio.CancelledError`: automation:complete {stopped: True}
cancelled_complete(c, j) ==
    /\ MayRun(<<c, j>>)
    /\ Runnable(c, j, {"c_log"})
    /\ Step(c, j, jobs[c][j], <<>>, "automation:complete", "stopped", "c_complete", <<>>)
    /\ Sched(<<c, j>>)
    /\ UNCHANGED bcast

\* the task leaves run_automation after its last send
run_finish(c, j) ==
    /\ MayRun(<<c, j>>)
    /\ Runnable(c, j, {"s_complete", "e_complete", "c_complete"})
    /\ Finally(c, j, jobs[c][j],
               CASE jobs[c][j].pc = "s_complete" -> "Completed"
                 [] jobs[c][j].pc = "e_complete" -> "Failed"
                 [] jobs[c][j].pc = "c_complete" -> "Cancelled")
    /\ last' = Op("job", c, NoSend)
    /\ UNCHANGED <<active_connections, active_clients, transport, hpc, logq,
                   sent, nrecv, stalls>>
    /\ Sched(<<c, j>>)
    /\ UNCHANGED bcast

\* The loop throws CancelledError into the task at the await it is suspended
\* in.  A task that has not started ends without entering its try statement; an
\* await inside the try statement leads to `except asyncio.CancelledError`,
\* from the engine possibly after the engine's own clean-up; an await inside an
\* except clause leads to `finally`.
throw_CancelledError(c, j) ==
    /\ MayRun(<<c, j>>)
    /\ j \in 1..Len(jobs[c])
    /\ jobs[c][j].cancelReq
    /\ jobs[c][j].pc # "done"
    /\ cur = NoTask
    /\ LET jr == [jobs[c][j] EXCEPT !.cancelReq = FALSE]
           pc == jr.pc
           quiet == /\ last' = Op("job", c, NoSend)
                    /\ UNCHANGED <<active_connections, active_clients, transport,
                                   hpc, logq, sent, nrecv, stalls>>
       IN  CASE pc = "unstarted" ->
                   /\ jobs' = [jobs EXCEPT ![c][j] = Done("Cancelled")]
                   /\ cur' = NoTask
                   /\ UNCHANGED active_automations
                   /\ quiet
             [] pc \in EnginePcs \cup {"shot"} ->
                   \/ except_CancelledError(c, j, jr)
                   \/ /\ jobs' = [jobs EXCEPT ![c][j] = [jr EXCEPT !.pc = "unwind"]]
                      /\ cur' = NoTask
                      /\ UNCHANGED active_automations
                      /\ quiet
             [] pc = "unwind" ->
                   /\ jobs' = [jobs EXCEPT ![c][j] = jr]
                   /\ cur' = NoTask
                   /\ UNCHANGED active_automations
                   /\ quiet
             [] pc \in {"s_start", "s_config", "s_complete"} ->
                   except_CancelledError(c, j, jr)
             [] pc \in {"c_log", "c_complete", "e_log", "e_error", "e_complete"} ->
                   /\ Finally(c, j, jr, "Cancelled")
                   /\ quiet
    /\ Sched(<<c, j>>)
    /\ UNCHANGED bcast

\* the engine has unwound and CancelledError leaves agent.run()
engine_unwound(c, j) ==
    /\ MayRun(<<c, j>>)
    /\ Runnable(c, j, {"unwind"})
    /\ except_CancelledError(c, j, jobs[c][j])
    /\ Sched(<<c, j>>)
    /\ UNCHANGED bcast

\* the messages of c's transport after send_message(c, q[1]), ..., in order
RECURSIVE WrittenAll(_, _, _)
WrittenAll(c, q, acc) ==
    IF q = <<>> THEN acc
    ELSE WrittenAll(c, Tail(q),
                    IF send_message(active_connections, c) = "written"
                    THEN Append(acc, Head(q)) ELSE acc)

\* the tasks at the head of q that one task created (they are adjacent in the
\* loop's ready queue and run in one pass of the loop)
RECURSIVE Batch(_, _)
Batch(q, j) ==
    IF q = <<>> \/ Head(q).job # j THEN <<>>
    ELSE <<Head(q)>> \o Batch(Tail(q), j)

\* the loop runs the oldest tasks created by new_log_message
log_task(c) ==
    /\ cur = NoTask
    /\ logq[c] # <<>>
    /\ LET b == Batch(logq[c], Head(logq[c]).job)
       IN  /\ sent' = [sent EXCEPT ![c] = WrittenAll(c, b, @)]
           /\ logq' = [logq EXCEPT ![c] = SubSeq(@, Len(b) + 1, Len(@))]
    /\ last' = Op("log", c, SendRec(c, "automation:log", "batch"))
    /\ UNCHANGED <<active_connections, active_clients, active_automations,
                   transport, hpc, jobs, cur, nrecv, stalls>>
    /\ Sched(NoTask)
    /\ UNCHANGED bcast

JobIds == 1..MaxMsgs

Next ==
    \/ \E c \in Clients : Connect(c)
    \/ \E c \in Clients : ClientClose(c)
    \/ \E c \in Clients, m \in Messages : Receive(c, m)
    \/ \E c \in Clients : SleepDone(c)
    \/ \E c \in Clients : Disconnect(c)
    \/ \E c \in Clients, j \in JobIds : run_start(c, j)
    \/ \E c \in Clients, j \in JobIds : run_config(c, j)
    \/ \E c \in Clients, j \in JobIds : run_agent(c, j)
    \/ \E c \in Clients, j \in JobIds : engine_step(c, j)
    \/ \E c \in Clients, j \in JobIds : engine_shot(c, j)
    \/ \E c \in Clients, j \in JobIds : engine_done(c, j)
    \/ \E c \in Clients, j \in JobIds : engine_yield(c, j)
    \/ \E c \in Clients, j \in JobIds : engine_return(c, j)
    \/ \E c \in Clients, j \in JobIds : engine_fail(c, j)
    \/ \E c \in Clients, j \in JobIds : except_error(c, j)
    \/ \E c \in Clients, j \in JobIds : except_complete(c, j)
    \/ \E c \in Clients, j \in JobIds : cancelled_complete(c, j)
    \/ \E c \in Clients, j \in JobIds : run_finish(c, j)
    \/ \E c \in Clients, j \in JobIds : throw_CancelledError(c, j)
    \/ \E c \in Clients, j \in JobIds : engine_unwound(c, j)
    \/ \E c \in Clients : log_task(c)

Spec == Init /\ [][Next]_vars

\* GET /health: the counts of ServerStatus
health_check ==
    [active_clients |-> Cardinality(active_clients),
     active_automations |-> Cardinality({c \in Clients : active_automations[c] # 0})]

\* ---------------------------------------------------------------------
\* ConnectionManager.broadcast, called on a manager that holds up to MaxConns
\* connections, some of which the peer has closed already

MaxConns == 3

Conns == 1..MaxConns

\* the message of one broadcast(event, data) call
BroadcastMessage == Ev(0, "broadcast", "all", 0)

\* the key orders of active_connections: a dict iterates in insertion order
Orders ==
    {o \in UNION {[1..n -> Conns] : n \in 0..MaxConns} :
        \A i, k \in DOMAIN o : i # k => o[i] # o[k]}

\* `for client_id, connection in self.active_connections.items():
\*      await connection.send_text(json_message)` over the keys in `order`,
\* starting from the transports' contents snt
RECURSIVE BroadcastLoop(_, _)
BroadcastLoop(order, snt) ==
    IF order = <<>> THEN [sent |-> snt, out |-> "returned"]
    ELSE IF send_text(Head(order)) = "raised" THEN [sent |-> snt, out |-> "raised"]
    ELSE BroadcastLoop(Tail(order),
                       [snt EXCEPT ![Head(order)] = Append(@, BroadcastMessage)])

InitBroadcast ==
    /\ bcast \in {[order |-> o, out |-> "idle"] : o \in Orders}
    /\ active_connections = {bcast.order[i] : i \in DOMAIN bcast.order}
    /\ active_clients = active_connections
    /\ transport \in [Conns -> {"open", "closed"}]
    /\ sent = [c \in Conns |-> <<>>]
    /\ active_automations = [c \in Conns |-> 0]
    /\ hpc = [c \in Conns |-> At(IF c \in active_connections THEN "recv" ELSE "gone")]
    /\ jobs = [c \in Conns |-> <<>>]
    /\ logq = [c \in Conns |-> <<>>]
    /\ cur = NoTask
    /\ early = {}
    /\ nrecv = 0
    /\ stalls = 0
    /\ last = Op("init", 0, NoSend)

\* one call of manager.broadcast(event, data)
broadcast ==
    /\ bcast.out = "idle"
    /\ LET r == BroadcastLoop(bcast.order, sent)
       IN  /\ sent' = r.sent
           /\ bcast' = [bcast EXCEPT !.out = r.out]
    /\ last' = Op("broadcast", 0, NoSend)
    /\ UNCHANGED <<active_connections, active_clients, active_automations,
                   transport, hpc, jobs, logq, cur, early, nrecv, stalls>>

NextBroadcast == broadcast

SpecBroadcast == InitBroadcast /\ [][NextBroadcast]_vars

\* ---------------------------------------------------------------------
\* Properties

JobsOf(c) == 1..Len(jobs[c])

NonTerminal(c) == {j \in JobsOf(c) : ~done(c, j)}

\* the positions in c's stream of the complete events of task j
Completes(c, j) ==
    {i \in 1..Len(sent[c]) :
        sent[c][i].job = j /\ sent[c][i].ev = "automation:complete"}

\* Task.cancel() has been called on a task that is not done
CancelRequested(js, c, j) ==
    js[c][j].cancelReq \/ js[c][j].pc \in {"unwind", "c_log", "c_complete"}

\* C1: in every reachable state each session has at most one automation job
\* that has not reached a terminal state.
C1_AtMostOneNonTerminalJob ==
    \A c \in Clients : Cardinality(NonTerminal(c)) <= 1

\* C2: every job started on a session whose connection stays open gets an
\* automation:complete event.  Finite form: once the newest task of a session
\* is done while the connection is registered and its transport open, a
\* complete event of that task has been written.
C2_CompleteForEveryJob ==
    \A c \in Clients :
        (/\ jobs[c] # <<>>
         /\ done(c, Len(jobs[c]))
         /\ c \in active_connections
         /\ transport[c] = "open")
        => Completes(c, Len(jobs[c])) # {}

\* C3: no job sends more than one automation:complete event to its session.
C3_AtMostOneComplete ==
    \A c \in Clients : \A j \in JobsOf(c) : Cardinality(Completes(c, j)) <= 1

\* C4: the automation:complete event of a job is the last event that job
\* delivers to its session.
C4_CompleteIsLast ==
    \A c \in Clients : \A i, k \in 1..Len(sent[c]) :
        (i < k /\ sent[c][i].ev = "automation:complete")
        => sent[c][k].job # sent[c][i].job

\* C5: the events of one job are delivered in the order in which the job
\* emitted them (n is the emission number within the job).
C5_EmissionOrder ==
    \A c \in Clients : \A i, k \in 1..Len(sent[c]) :
        (i < k /\ sent[c][i].job = sent[c][k].job)
        => sent[c][i].n < sent[c][k].n

\* C6: an automation:stop read while the session has no task, or only a task
\* that is done, sends nothing, raises nothing (the loop keeps reading) and
\* leaves the tasks and the three registries unchanged.
C6_StopIdleIsNoop ==
    [][(last'.op = "stop" /\ nrecv' = nrecv + 1 /\ ~HasRunning(last'.c))
       => (/\ last'.send = NoSend
           /\ UNCHANGED <<sent, jobs, logq, hpc, active_automations,
                          active_clients, active_connections>>)]_vars

C6_Witness ==
    \E c \in Clients :
        /\ last.op = "stop" /\ last.c = c
        /\ jobs[c] # <<>>
        /\ \A j \in JobsOf(c) : done(c, j) /\ ~jobs[c][j].cancelReq

\* C7: when the message loop of a session ends, the session is removed from
\* active_connections and active_clients and every job of the session that is
\* not done has had its cancellation requested.
C7_LoopEndCancelsJobs ==
    [][\A c \in Clients :
          (hpc[c].at # "gone" /\ hpc'[c].at = "gone")
          => (/\ c \notin active_connections'
              /\ c \notin active_clients'
              /\ \A j \in JobsOf(c) :
                    jobs'[c][j].pc # "done" => CancelRequested(jobs', c, j))]_vars

\* C8: after a session has been disconnected, nothing its tasks send is
\* written to any transport and none of their sends raises.
C8_NoDeliveryAfterDisconnect ==
    [][\A c \in Clients :
          (hpc[c].at = "gone" /\ last'.c = c /\ last'.op \in {"job", "log"})
          => (sent' = sent /\ last'.send.out \in {"none", "noop"})]_vars

C8_Witness ==
    \E c \in Clients :
        /\ hpc[c].at = "gone"
        /\ last.c = c /\ last.op = "job"
        /\ last.send.out = "noop" /\ last.send.tag = "stopped"

\* C9: a send_message call for a client id without a registered connection
\* writes nothing, raises nothing and leaves the registries unchanged.
C9_SendUnregisteredIsNoop ==
    [][(last'.send.out # "none" /\ ~last'.send.reg)
       => (/\ last'.send.out = "noop"
           /\ UNCHANGED <<sent, active_connections, active_clients,
                          active_automations>>)]_vars

C9_Witness ==
    /\ last.op = "log"
    /\ ~last.send.reg
    /\ last.send.out = "noop"

\* C10: a send_message call on a registered connection whose send fails does
\* not raise.
C10_SendFailureSwallowed ==
    last.send.reg => last.send.out # "raised"
\* ---------------------------------------------------------------------
\* One session that submits one valid request; the engine invokes the step
\* callback ScenarioSteps times and then returns successfully.

ScenarioSteps == 2

submit_valid(c) == nrecv = 0 /\ Receive(c, "submit_ok")

scenario_step(c, j) == default_new_step_callback(c, j, ScenarioSteps)

scenario_return(c, j) ==
    /\ j \in 1..Len(jobs[c])
    /\ jobs[c][j].steps = ScenarioSteps
    /\ engine_return(c, j)

NextTwoSteps ==
    \/ \E c \in Clients : Connect(c)
    \/ \E c \in Clients : submit_valid(c)
    \/ \E c \in Clients, j \in JobIds : run_start(c, j)
    \/ \E c \in Clients, j \in JobIds : run_config(c, j)
    \/ \E c \in Clients, j \in JobIds : run_agent(c, j)
    \/ \E c \in Clients, j \in JobIds : scenario_step(c, j)
    \/ \E c \in Clients, j \in JobIds : engine_shot(c, j)
    \/ \E c \in Clients, j \in JobIds : engine_yield(c, j)
    \/ \E c \in Clients, j \in JobIds : scenario_return(c, j)
    \/ \E c \in Clients, j \in JobIds : run_finish(c, j)
    \/ \E c \in Clients : log_task(c)

SpecTwoSteps == Init /\ [][NextTwoSteps]_vars

\* ---------------------------------------------------------------------
\* One session that submits one valid request and then sends two stop
\* messages while the job is executing; the engine does not finish by itself.

StopTwiceMsgs == 3

scenario_stop(c) ==
    /\ nrecv >= 1
    /\ jobs[c] # <<>>
    /\ jobs[c][1].pc \notin {"unstarted", "done"}
    /\ receive_text(c, "stop", StopTwiceMsgs)

NextStopTwice ==
    \/ \E c \in Clients : Connect(c)
    \/ \E c \in Clients : submit_valid(c)
    \/ \E c \in Clients : scenario_stop(c)
    \/ \E c \in Clients, j \in JobIds : run_start(c, j)
    \/ \E c \in Clients, j \in JobIds : run_config(c, j)
    \/ \E c \in Clients, j \in JobIds : run_agent(c, j)
    \/ \E c \in Clients, j \in JobIds : engine_step(c, j)
    \/ \E c \in Clients, j \in JobIds : engine_shot(c, j)
    \/ \E c \in Clients, j \in JobIds : engine_yield(c, j)
    \/ \E c \in Clients, j \in JobIds : throw_CancelledError(c, j)
    \/ \E c \in Clients, j \in JobIds : engine_unwound(c, j)
    \/ \E c \in Clients, j \in JobIds : cancelled_complete(c, j)
    \/ \E c \in Clients, j \in JobIds : run_finish(c, j)
    \/ \E c \in Clients : log_task(c)

SpecStopTwice == Init /\ [][NextStopTwice]_vars

\* ---------------------------------------------------------------------
\* Two sessions on one server.  Each connects, submits at most one valid
\* request, may send stop messages and may be closed by its peer; the engine
\* runs one step at most and returns, or is cancelled.

NumSessions == 2

TwoSessionsMsgs == 3

Sessions == 1..NumSessions

\* the server with no connection yet, seen by NumSessions future sessions
InitTwoSessions ==
    /\ active_connections = {}
    /\ active_clients = {}
    /\ active_automations = [c \in Sessions |-> 0]
    /\ transport = [c \in Sessions |-> "new"]
    /\ hpc = [c \in Sessions |-> At("init")]
    /\ jobs = [c \in Sessions |-> <<>>]
    /\ logq = [c \in Sessions |-> <<>>]
    /\ sent = [c \in Sessions |-> <<>>]
    /\ cur = NoTask
    /\ early = {}
    /\ nrecv = 0
    /\ stalls = 0
    /\ last = Op("init", 0, NoSend)
    /\ bcast = NoBroadcast

session_submit(c) == jobs[c] = <<>> /\ receive_text(c, "submit_ok", TwoSessionsMsgs)

session_stop(c) == jobs[c] # <<>> /\ receive_text(c, "stop", TwoSessionsMsgs)

NextTwoSessions ==
    \/ \E c \in Sessions : Connect(c)
    \/ \E c \in Sessions : ClientClose(c)
    \/ \E c \in Sessions : session_submit(c)
    \/ \E c \in Sessions : session_stop(c)
    \/ \E c \in Sessions : Disconnect(c)
    \/ \E c \in Sessions : run_start(c, 1)
    \/ \E c \in Sessions : run_config(c, 1)
    \/ \E c \in Sessions : run_agent(c, 1)
    \/ \E c \in Sessions : engine_step(c, 1)
    \/ \E c \in Sessions : engine_yield(c, 1)
    \/ \E c \in Sessions : engine_return(c, 1)
    \/ \E c \in Sessions : throw_CancelledError(c, 1)
    \/ \E c \in Sessions : engine_unwound(c, 1)
    \/ \E c \in Sessions : cancelled_complete(c, 1)
    \/ \E c \in Sessions : run_finish(c, 1)
    \/ \E c \in Sessions : log_task(c)

SpecTwoSessions == InitTwoSessions /\ [][NextTwoSessions]_vars

\* C11: a broadcast over N registered connections of which some fail on send
\* returns normally and has written the message to every connection whose
\* transport is open, whatever the iteration order.
C11_BroadcastIsolatesFailure ==
    bcast.out # "idle"
    => (/\ bcast.out = "returned"
        /\ \A c \in active_connections :
              transport[c] = "open" => sent[c] = <<BroadcastMessage>>)
\* C12: a submit that selects provider openai while no API key is configured
\* is rejected by validation: no run_automation task is ever created for it.
C12_OpenAIWithoutKeyRejected ==
    \A c \in Clients : \A j \in JobsOf(c) : jobs[c][j].req # "ctorfail"

\* C13: a submit whose request fails validation makes one send_message call,
\* an automation:error to the submitting client that is written when its
\* transport is open, and creates no task and no active_automations entry.
C13_InvalidSubmitCreatesNoJob ==
    [][\A c \in Clients :
          (/\ last'.op = "submit" /\ last'.c = c /\ last'.send.tag = "invalid"
           /\ (nrecv' # nrecv \/ hpc[c].at = "sleep"))
          => (/\ last'.send.ev = "automation:error"
              /\ last'.send.c = c
              /\ transport[c] = "open" => last'.send.out = "written"
              /\ Len(jobs'[c]) = Len(jobs[c])
              /\ active_automations' = active_automations)]_vars

C13_Witness ==
    \E c \in Clients :
        /\ last.op = "submit" /\ last.c = c
        /\ last.send.tag = "invalid" /\ last.send.out = "written"
        /\ jobs[c] = <<>>
        /\ hpc[c].at = "recv"

\* C14: a submit whose task text is empty or whose prompt field is missing is
\* rejected by validation: no run_automation task is ever created for it.
C14_EmptyTaskRejected ==
    \A c \in Clients : \A j \in JobsOf(c) : jobs[c][j].req # "empty"
\* C15: an inbound message that cannot be decoded or dispatched, read on an
\* open connection, is answered by an automation:error on that connection,
\* leaves the session registered and the loop at its next receive.
C15_MalformedMessageIsolated ==
    [][\A c \in Clients :
          (/\ last'.c = c
           /\ \/ last'.op \in {"badjson", "notobject"}
              \/ last'.op = "submit" /\ last'.send.tag = "server"
           /\ (nrecv' # nrecv \/ hpc[c].at = "sleep")
           /\ transport[c] = "open")
          => (/\ last'.send.ev = "automation:error"
              /\ last'.send.c = c
              /\ last'.send.out = "written"
              /\ c \in active_connections'
              /\ c \in active_clients'
              /\ hpc'[c].at = "recv"
              /\ jobs' = jobs)]_vars

\* a malformed message, read as the session's second message, has been
\* reported and the loop is at its next receive
C15_Witness ==
    \E c \in Clients :
        /\ last.op = "notobject" /\ last.c = c
        /\ last.send.out = "written"
        /\ nrecv = 2
        /\ hpc[c].at = "recv"
        /\ c \in active_connections

\* C16: when the engine has invoked the step callback twice and returned, the
\* client has received exactly two log events followed by one complete event
\* with success=true.
C16_TwoLogsThenComplete ==
    \A c \in Clients : \A j \in JobsOf(c) :
        (jobs[c][j].pc = "s_complete" /\ jobs[c][j].steps = ScenarioSteps)
        => (/\ Len(sent[c]) = 3
            /\ sent[c][1].ev = "automation:log"
            /\ sent[c][2].ev = "automation:log"
            /\ sent[c][3].ev = "automation:complete"
            /\ sent[c][3].tag = "ok")

\* the positions in c's stream of the step relays (new_step_callback) of task j
StepRelays(c, j) ==
    {i \in 1..Len(sent[c]) : sent[c][i].job = j /\ sent[c][i].tag = "step"}

\* C16 (amended): when the engine has invoked the step callback ScenarioSteps
\* times and returned, the client has received that many step relays, in the
\* order of the steps, and after them exactly one complete event, with
\* success=true; further log events may precede, separate and follow them.
C16_StepRelaysThenComplete ==
    \A c \in Clients : \A j \in JobsOf(c) :
        (jobs[c][j].pc = "s_complete" /\ jobs[c][j].steps = ScenarioSteps)
        => (/\ Cardinality(StepRelays(c, j)) = ScenarioSteps
            /\ \A i, k \in StepRelays(c, j) : i < k => sent[c][i].n < sent[c][k].n
            /\ Cardinality(Completes(c, j)) = 1
            /\ \A i \in Completes(c, j) :
                  /\ sent[c][i].tag = "ok"
                  /\ \A k \in StepRelays(c, j) : k < i)

C16_Witness ==
    \E c \in Clients : \E j \in JobsOf(c) :
        /\ jobs[c][j].pc = "s_complete"
        /\ jobs[c][j].steps = ScenarioSteps
        /\ Len(sent[c]) > 3
        /\ Completes(c, j) # {}

\* the positions in c's stream of the "Automation stopped by user" logs of task j
StopLogs(c, j) ==
    {i \in 1..Len(sent[c]) :
        /\ sent[c][i].job = j
        /\ sent[c][i].ev = "automation:log"
        /\ sent[c][i].tag = "stopped"}

\* the connection of c is registered and its transport is open
Connected(c) == c \in active_connections /\ transport[c] = "open"

ErrorEvents(c, j) ==
    {i \in 1..Len(sent[c]) :
        sent[c][i].job = j /\ sent[c][i].ev = "automation:error"}

C19_TerminalJobDeregistered ==
    \A c \in Clients :
        active_automations[c] # 0 => ~done(c, active_automations[c])

\* C20: whenever a session has a non-terminal job, active_automations[client_id]
\* refers to that job, so that a stop requests its cancellation.
C20_EntryRefersToRunningJob ==
    \A c \in Clients : \A j \in NonTerminal(c) : active_automations[c] = j

\* C21: a job's cleanup only clears the session's active_automations entry
\* when the entry holds that job: whenever an entry is removed, the task it
\* held is the one that has just finished.
C21_CleanupClearsOwnEntry ==
    [][\A c \in Clients :
          (active_automations[c] # 0 /\ active_automations'[c] = 0)
          => (/\ jobs[c][active_automations[c]].pc # "done"
              /\ jobs'[c][active_automations[c]].pc = "done")]_vars

\* C22: the events of two jobs of one session are never interleaved on the
\* session's stream: no event of an earlier job is written after an event of
\* a later job.
C22_JobsNotInterleaved ==
    \A c \in Clients : \A i, k \in 1..Len(sent[c]) :
        i < k => sent[c][i].job <= sent[c][k].job

\* C23: a submit that is rejected (validation error or malformed options)
\* leaves the session's running job uncancelled: reading it changes no task.
C23_RejectedSubmitKeepsJob ==
    [][\A c \in Clients :
          (/\ nrecv' # nrecv
           /\ last'.c = c
           /\ last'.op = "supersede"
           /\ hpc'[c].msg \in {"submit_invalid", "submit_badshape"})
          => jobs' = jobs]_vars

\* the submits that pass validation
ValidSubmits == {"submit_ok", "submit_empty", "submit_ctorfail"}

\* C24: handling a valid submit never waits on the previous job.  Once the
\* cancellation has been thrown into the previous task and the loop can run
\* the handler, the handler can proceed whatever state that task is in; and
\* when it proceeds it creates the new task and stores it in
\* active_automations, also when the previous task is not done.
C24_SubmitWaitIsBounded ==
    /\ [](\A c \in Clients :
            (/\ hpc[c].at = "sleep"
             /\ cur = NoTask /\ LogsIdle
             /\ \A j \in JobsOf(c) : ~jobs[c][j].cancelReq)
            => ENABLED SleepDone(c))
    /\ [][\A c \in Clients :
            (hpc[c].at = "sleep" /\ hpc'[c].at # "sleep" /\ hpc[c].msg \in ValidSubmits)
            => (/\ Len(jobs'[c]) = Len(jobs[c]) + 1
                /\ active_automations'[c] = Len(jobs'[c])
                /\ jobs'[c][Len(jobs'[c])].pc = "unstarted")]_vars

\* the new task was created and stored while the previous task is not done
C24_Witness ==
    \E c \in Clients :
        /\ last.op = "submit" /\ last.c = c
        /\ Len(jobs[c]) = 2
        /\ active_automations[c] = 2
        /\ ~done(c, 1)
        /\ jobs[c][2].pc = "unstarted"

\* C25: relaying an engine callback never changes the job's state: a step or
\* done relay whose send fails does not end the task and leaves it in the
\* engine invocation.
C25_RelayFailureKeepsJob ==
    [][\A c \in Clients : \A j \in JobsOf(c) :
          (/\ last'.op = "job" /\ last'.c = c
           /\ last'.send.tag \in {"step", "donecb"}
           /\ last'.send.out = "raised"
           /\ jobs[c][j].pc \in EnginePcs \cup {"shot"})
          => jobs'[c][j].pc \in EnginePcs]_vars

\* C26: no job outlives its session: once a session is disconnected every task
\* started for it that is not done has its cancellation requested or under way.
C26_NoJobOutlivesSession ==
    \A c \in Clients :
        hpc[c].at = "gone"
        => \A j \in JobsOf(c) : ~done(c, j) => CancelRequested(jobs, c, j)

\* the number of tasks of all sessions that are not done
RECURSIVE RunningJobs(_)
RunningJobs(cs) ==
    IF cs = {} THEN 0
    ELSE LET c == CHOOSE d \in cs : TRUE
         IN  Cardinality(NonTerminal(c)) + RunningJobs(cs \ {c})

\* C27: the active job count of the health endpoint equals the number of jobs
\* started and not terminal, and its active session count equals the number
\* of registered connections.
C27_HealthCountsAreExact ==
    /\ health_check.active_automations = RunningJobs(Clients)
    /\ health_check.active_clients = Cardinality(active_connections)

\* C28: a job cancelled before it has executed its first step terminates
\* cleanly: when it ends, active_automations does not hold it any more and, on
\* an open connection, its stop log and its stopped complete have been written.
C28_CancelBeforeStartIsClean ==
    [][\A c \in Clients : \A j \in JobsOf(c) :
          (jobs[c][j].pc = "unstarted" /\ jobs'[c][j].pc = "done")
          => (/\ active_automations'[c] # j
              /\ Connected(c)
                 => \E i, k \in 1..Len(sent'[c]) :
                       /\ i < k
                       /\ sent'[c][i].job = j /\ sent'[c][i].tag = "stopped"
                       /\ sent'[c][i].ev = "automation:log"
                       /\ sent'[c][k].job = j /\ sent'[c][k].tag = "stopped"
                       /\ sent'[c][k].ev = "automation:complete")]_vars

\* C29: a cancellation that arrives while a job is handling a failure, after
\* its automation:error event and before its complete event, does not
\* suppress the complete: on an open connection the task does not end without
\* having written its complete event with success=false.
C29_CancelInFailureKeepsComplete ==
    [][\A c \in Clients : \A j \in JobsOf(c) :
          (/\ jobs[c][j].pc = "e_error"
           /\ jobs[c][j].cancelReq
           /\ jobs'[c][j].pc = "done"
           /\ Connected(c))
          => \E k \in 1..Len(sent'[c]) :
                /\ sent'[c][k].job = j
                /\ sent'[c][k].ev = "automation:complete"
                /\ sent'[c][k].tag = "failed"]_vars

\* C30: two stop messages processed while the job is executing produce the
\* outcome of one: once the job is done, its stream holds exactly one
\* "Automation stopped by user" log followed by exactly one complete event,
\* with stopped=true, and the session has no active_automations entry.
C30_StopTwiceSameAsOnce ==
    \A c \in Clients : \A j \in JobsOf(c) :
        (done(c, j) /\ nrecv = StopTwiceMsgs)
        => (/\ Cardinality(StopLogs(c, j)) = 1
            /\ Cardinality(Completes(c, j)) = 1
            /\ \A i \in StopLogs(c, j) : \A k \in Completes(c, j) :
                  i < k /\ sent[c][k].tag = "stopped"
            /\ active_automations[c] = 0)

\* C31: sessions are isolated.  A step taken for one session (its message
\* loop reading a submit or a stop, its disconnect, its peer closing, one of
\* its tasks or log relays running) addresses send_message to that session
\* only, and leaves every other session's stream, pending sends, tasks,
\* active_automations entry, registry membership, transport and message loop
\* unchanged.
C31_SessionsIsolated ==
    [][/\ last'.send.c \in {0, last'.c}
       /\ \A b \in DOMAIN jobs :
            last'.c # b
            => (/\ sent'[b] = sent[b]
                /\ logq'[b] = logq[b]
                /\ jobs'[b] = jobs[b]
                /\ active_automations'[b] = active_automations[b]
                /\ (b \in active_clients') = (b \in active_clients)
                /\ (b \in active_connections') = (b \in active_connections)
                /\ transport'[b] = transport[b]
                /\ hpc'[b] = hpc[b])]_vars

\* one session was stopped, wrote its stopped complete, finished and was
\* disconnected while the task of the other session is executing, uncancelled,
\* stored in active_automations, on a registered connection that has received
\* events
C31_Witness ==
    \E a, b \in DOMAIN jobs :
        /\ a # b
        /\ hpc[a].at = "gone"
        /\ jobs[a] # <<>> /\ jobs[a][1].outcome = "Cancelled"
        /\ Completes(a, 1) # {}
        /\ jobs[b] # <<>> /\ jobs[b][1].pc \in EnginePcs
        /\ ~jobs[b][1].cancelReq
        /\ active_automations[b] = 1
        /\ b \in active_connections /\ b \in active_clients
        /\ sent[b] # <<>>

\* C32: a well-formed inbound message whose event name is neither
\* prompt:submit nor automation:stop is ignored: reading it makes no
\* send_message call, writes nothing, cancels and creates no task, leaves
\* active_automations, active_clients and active_connections unchanged and
\* the loop at its next receive.
C32_UnknownEventIgnored ==
    [][\A c \in Clients :
          (last'.op = "other" /\ last'.c = c /\ nrecv' # nrecv)
          => (/\ last'.send = NoSend
              /\ hpc'[c].at = "recv"
              /\ UNCHANGED <<sent, jobs, logq, active_automations,
                             active_clients, active_connections>>)]_vars

\* a message with an unknown event name was read while a task of the session
\* was executing, and the task has not been cancelled
C32_Witness ==
    \E c \in Clients :
        /\ last.op = "other" /\ last.c = c
        /\ HasRunning(c)
        /\ jobs[c][active_automations[c]].pc \in EnginePcs
        /\ ~jobs[c][active_automations[c]].cancelReq
        /\ nrecv = 2
====
